---- MODULE Spec2Model ----
(***************************************************************************)
(* Batch conversion of ingested HTML files to Markdown (src/src/main.py).   *)
(*                                                                         *)
(* The ledger is the PostgreSQL table "files", the store is the GCS object  *)
(* store.  Strings are sequences of one-character strings, so that path     *)
(* parsing is computed character by character as the code computes it.      *)
(***************************************************************************)
EXTENDS Integers, Sequences, FiniteSets, TLC

(***************************************************************************)
(* Bounds of the model.                                                    *)
(***************************************************************************)
NumRecords == 2
MaxRuns == 2

(***************************************************************************)
(* String helpers (Python str methods used by the code).                   *)
(***************************************************************************)
StartsWith(s, p) == Len(s) >= Len(p) /\ SubSeq(s, 1, Len(p)) = p

EndsWith(s, p) == Len(s) >= Len(p) /\ SubSeq(s, Len(s) - Len(p) + 1, Len(s)) = p

\* str.lstrip(c): drop every leading occurrence of the character c
RECURSIVE LStrip(_, _)
LStrip(s, c) == IF s # <<>> /\ Head(s) = c THEN LStrip(Tail(s), c) ELSE s

\* 1-based index of the first character of s, at or after position from, that is in cs; 0 if none
RECURSIVE FindAny(_, _, _)
FindAny(s, cs, from) ==
    IF from > Len(s) THEN 0
    ELSE IF s[from] \in cs THEN from
    ELSE FindAny(s, cs, from + 1)

\* str.rfind(c), 1-based; 0 if c does not occur
RECURSIVE RFind(_, _, _)
RFind(s, c, from) ==
    IF from < 1 THEN 0
    ELSE IF s[from] = c THEN from
    ELSE RFind(s, c, from - 1)

\* str.lower() on the letters the paths of the model use
LowerChar(c) ==
    CASE c = "G" -> "g"
      [] c = "Z" -> "z"
      [] c = "H" -> "h"
      [] c = "T" -> "t"
      [] c = "M" -> "m"
      [] c = "L" -> "l"
      [] OTHER -> c

Lower(s) == [k \in 1..Len(s) |-> LowerChar(s[k])]

\* str.split("/")
RECURSIVE SplitSlash(_)
SplitSlash(s) ==
    LET k == FindAny(s, {"/"}, 1)
    IN  IF k = 0 THEN <<s>>
        ELSE <<SubSeq(s, 1, k - 1)>> \o SplitSlash(SubSeq(s, k + 1, Len(s)))

\* "/".join(parts)
RECURSIVE JoinSlash(_)
JoinSlash(parts) ==
    IF parts = <<>> THEN <<>>
    ELSE IF Len(parts) = 1 THEN parts[1]
    ELSE parts[1] \o <<"/">> \o JoinSlash(Tail(parts))

RECURSIVE Filter(_, _)
Filter(parts, drop) ==
    IF parts = <<>> THEN <<>>
    ELSE IF Head(parts) \in drop THEN Filter(Tail(parts), drop)
    ELSE <<Head(parts)>> \o Filter(Tail(parts), drop)

GS == <<"g", "s", ":", "/", "/">>
HTML == <<".", "h", "t", "m", "l">>
HTM == <<".", "h", "t", "m">>
GZ == <<".", "g", "z">>
MD == <<".", "m", "d">>
MARKDOWN == <<"m", "a", "r", "k", "d", "o", "w", "n">>

(***************************************************************************)
(* parse_gcs_path: a ValueError without the gs:// prefix, else urlparse's   *)
(* netloc (up to the first "/", "?" or "#") and its path (up to the first   *)
(* "#" or "?") with the leading slashes stripped.                           *)
(***************************************************************************)
UrlNetloc(url) ==
    LET rest == SubSeq(url, Len(GS) + 1, Len(url))
        d == FindAny(rest, {"/", "?", "#"}, 1)
    IN  IF d = 0 THEN rest ELSE SubSeq(rest, 1, d - 1)

UrlPath(url) ==
    LET rest == SubSeq(url, Len(GS) + 1, Len(url))
        d == FindAny(rest, {"/", "?", "#"}, 1)
        tail == IF d = 0 THEN <<>> ELSE SubSeq(rest, d, Len(rest))
        e == FindAny(tail, {"?", "#"}, 1)
    IN  IF e = 0 THEN tail ELSE SubSeq(tail, 1, e - 1)

\* mutant of parse_gcs_path: the prefix tested is gs:/
parse_gcs_path_one_slash(gcs_path) ==
    IF ~StartsWith(gcs_path, <<"g", "s", ":", "/">>)
    THEN [raised |-> TRUE, bucket_name |-> <<>>, object_name |-> <<>>]
    ELSE [raised |-> FALSE,
          bucket_name |-> UrlNetloc(gcs_path),
          object_name |-> LStrip(UrlPath(gcs_path), "/")]

parse_gcs_path(gcs_path) ==
    IF ~StartsWith(gcs_path, GS)
    THEN [raised |-> TRUE, bucket_name |-> <<>>, object_name |-> <<>>]
    ELSE [raised |-> FALSE,
          bucket_name |-> UrlNetloc(gcs_path),
          object_name |-> LStrip(UrlPath(gcs_path), "/")]

(***************************************************************************)
(* pathlib.PurePosixPath on a relative key: parts, name, suffix, stem.     *)
(***************************************************************************)
PathParts(p) == Filter(SplitSlash(p), {<<>>, <<".">>})

PathName(parts) == IF parts = <<>> THEN <<>> ELSE parts[Len(parts)]

PathParent(parts) == IF parts = <<>> THEN <<>> ELSE SubSeq(parts, 1, Len(parts) - 1)

\* suffix of a file name: from its last "." on, unless that is the first or the last character
NameSuffix(name) ==
    LET k == RFind(name, ".", Len(name))
    IN  IF 1 < k /\ k < Len(name) THEN SubSeq(name, k, Len(name)) ELSE <<>>

NameStem(name) ==
    LET k == RFind(name, ".", Len(name))
    IN  IF 1 < k /\ k < Len(name) THEN SubSeq(name, 1, k - 1) ELSE name

\* Path(name).with_suffix(".md").name
WithSuffixMd(name) == NameStem(name) \o MD

\* mutant of get_sibling_markdown_path: under .gz only .html is recognised
get_sibling_markdown_path_html_only(original_path) ==
    LET parts == PathParts(original_path)
        name == PathName(parts)
        sibling_dir == PathParent(parts) \o <<MARKDOWN>>
        stem == NameStem(name)
        filename ==
            IF Lower(NameSuffix(name)) = GZ
            THEN IF EndsWith(stem, HTML)
                 THEN WithSuffixMd(stem)
                 ELSE stem \o MD
            ELSE IF Lower(NameSuffix(name)) \in {HTML, HTM}
            THEN WithSuffixMd(name)
            ELSE stem \o MD
    IN  JoinSlash(sibling_dir \o <<filename>>)

get_sibling_markdown_path(original_path) ==
    LET parts == PathParts(original_path)
        name == PathName(parts)
        sibling_dir == PathParent(parts) \o <<MARKDOWN>>
        stem == NameStem(name)
        filename ==
            IF Lower(NameSuffix(name)) = GZ
            THEN IF EndsWith(stem, HTML) \/ EndsWith(stem, HTM)
                 THEN WithSuffixMd(stem)
                 ELSE stem \o MD
            ELSE IF Lower(NameSuffix(name)) \in {HTML, HTM}
            THEN WithSuffixMd(name)
            ELSE stem \o MD
    IN  JoinSlash(sibling_dir \o <<filename>>)

(***************************************************************************)
(* The records and objects of the model.  A ledger row holds gcs_path,      *)
(* status and updated_at; a blob holds the kind of its bytes and the        *)
(* document they were made from.                                           *)
(***************************************************************************)
PathPageHtml == <<"g", "s", ":", "/", "/", "b", "/", "d", "/", "p", ".", "h", "t", "m", "l", ".", "g", "z">>
PathPageHtm == <<"g", "s", ":", "/", "/", "b", "/", "d", "/", "p", ".", "h", "t", "m", ".", "g", "z">>
PathCorrupt == <<"g", "s", ":", "/", "/", "b", "/", "d", "/", "c", ".", "h", "t", "m", "l", ".", "g", "z">>
PathLatin == <<"g", "s", ":", "/", "/", "b", "/", "d", "/", "u", ".", "h", "t", "m", "l", ".", "g", "z">>
PathMissing == <<"g", "s", ":", "/", "/", "b", "/", "m", ".", "h", "t", "m", "l", ".", "g", "z">>
PathNoScheme == <<"b", "/", "d", "/", "p", ".", "h", "t", "m", "l", ".", "g", "z">>

Paths == {PathPageHtml, PathPageHtm, PathCorrupt, PathLatin, PathMissing, PathNoScheme}

\* the paths given to the rows that start with another status than 'ingested': one with
\* an object that converts and one without an object
SettledPaths == {PathPageHtml, PathMissing}

Ids == 1..NumRecords

Statuses == {"pending", "ingested", "converted", "failed"}

ObjectName(gcs_path) ==
    <<parse_gcs_path(gcs_path).bucket_name, parse_gcs_path(gcs_path).object_name>>

\* the objects uploaded before the batch runs: two gzipped HTML pages, one object that
\* is not gzip data, one gzipped page that is not UTF-8; PathMissing has no object
InitialStore ==
    (ObjectName(PathPageHtml) :> [kind |-> "gzip_html", doc |-> "page_html"])
    @@ (ObjectName(PathPageHtm) :> [kind |-> "gzip_html", doc |-> "page_htm"])
    @@ (ObjectName(PathCorrupt) :> [kind |-> "not_gzip", doc |-> "corrupt"])
    @@ (ObjectName(PathLatin) :> [kind |-> "gzip_latin1", doc |-> "latin"])

VARIABLES
    ledger,            \* the table files: id -> [gcs_path, status, updated_at]
    store,             \* the object store: <<bucket, key>> -> blob
    now,               \* the database clock, CURRENT_TIMESTAMP
    pc,                \* where main is: idle, query, file, status, done
    runs,              \* how many times main has been started
    files,             \* process_all_files: the rows the query returned
    idx,               \* process_all_files: position in files (1-based)
    successful_count,  \* process_all_files: files converted so far
    file_ok,           \* process_all_files: what process_file returned for files[idx]
    result,            \* what process_all_files returned, <<>> if it has not returned
    exit_code,         \* the exit code of the process, -1 while it runs
    fatal,             \* why the run ended before the end of the list, "none" if it did not
    snap,              \* the ledger when this run started
    store0,            \* the store when this run started
    attempts,          \* per id: calls of process_file in this run
    outcome,           \* per id: "none", "ok" or "failed", the last return of process_file
    reason,            \* per id: the error process_file logged
    stage,             \* per id: the last step of process_file that completed
    status_writes,     \* per id: calls of update_file_status in this run
    status_arg,        \* per id: the status passed to update_file_status
    status_ret,        \* per id: "none", "true" or "false", its return value
    gcs_ops,           \* object-store requests made in this run
    fn,                \* a function called on its own: "none", "call" or "returned"
    fn_arg,            \* that call: [f |-> the function's name, x |-> its argument]
    fn_ret             \* what the call returned, <<>> before it returns

vars == <<ledger, store, now, pc, runs, files, idx, successful_count, file_ok, result,
          exit_code, fatal, snap, store0, attempts, outcome, reason, stage,
          status_writes, status_arg, status_ret, gcs_ops, fn, fn_arg, fn_ret>>

\* the variables of a call of one function on its own
call == <<fn, fn_arg, fn_ret>>

\* the variables of the batch
batch == <<ledger, store, now, pc, runs, files, idx, successful_count, file_ok, result,
           exit_code, fatal, snap, store0, attempts, outcome, reason, stage,
           status_writes, status_arg, status_ret, gcs_ops>>

(***************************************************************************)
(* get_ingested_files: the rows with status 'ingested', most recently       *)
(* updated first; rows with equal updated_at come in any order.             *)
(***************************************************************************)
\* mutant of WhereIngested: the WHERE clause is missing
WhereAnyStatus(led) == DOMAIN led

\* mutant of WhereIngested: failed rows are retried
WhereIngestedOrFailed(led) == {i \in DOMAIN led : led[i].status \in {"ingested", "failed"}}

WhereIngested(led) == {i \in DOMAIN led : led[i].status = "ingested"}

\* mutant of OrderByUpdatedAtDesc: ORDER BY updated_at ASC
OrderByUpdatedAtAsc(f, led) ==
    \A a, b \in 1..Len(f) : a < b => led[f[a]].updated_at <= led[f[b]].updated_at

OrderByUpdatedAtDesc(f, led) ==
    \A a, b \in 1..Len(f) : a < b => led[f[a]].updated_at >= led[f[b]].updated_at

Orderings(S) ==
    {f \in [1..Cardinality(S) -> S] : \A a, b \in 1..Cardinality(S) : a # b => f[a] # f[b]}

get_ingested_files(led) ==
    {[k \in 1..Len(f) |-> [id |-> f[k], gcs_path |-> led[f[k]].gcs_path]] :
        f \in {g \in Orderings(WhereIngested(led)) : OrderByUpdatedAtDesc(g, led)}}

(***************************************************************************)
(* process_file.  ProcessFileTry is the body of the try block: exc says     *)
(* that it raised, ret is what it returned otherwise.  process_file adds    *)
(* the except clause, which turns every exception into a return of False.  *)
(***************************************************************************)
\* mutant of ProcessFileTry: the upload is refused when the output object exists
ProcessFileTryCreateOnly(file_info, st, renderOK, uploadOK) ==
    LET parsed == parse_gcs_path(file_info.gcs_path)
        src == <<parsed.bucket_name, parsed.object_name>>
        dest == <<parsed.bucket_name, get_sibling_markdown_path(parsed.object_name)>>
        out(exc, ret, why, at, ops, st2) ==
            [exc |-> exc, ret |-> ret, reason |-> why, stage |-> at, ops |-> ops, store |-> st2]
    IN  IF parsed.raised THEN out(TRUE, FALSE, "path_format", "start", 0, st)
        ELSE IF src \notin DOMAIN st THEN out(FALSE, FALSE, "not_found", "parsed", 1, st)
        ELSE IF st[src].kind \notin {"gzip_html", "gzip_latin1"}
        THEN out(TRUE, FALSE, "decompress", "fetched", 2, st)
        ELSE IF st[src].kind # "gzip_html" THEN out(TRUE, FALSE, "decode", "decompressed", 2, st)
        ELSE IF ~renderOK THEN out(TRUE, FALSE, "render", "decoded", 2, st)
        ELSE IF ~uploadOK \/ dest \in DOMAIN st THEN out(TRUE, FALSE, "upload", "rendered", 3, st)
        ELSE out(FALSE, TRUE, "none", "stored", 3,
                 [n \in DOMAIN st \cup {dest} |->
                     IF n = dest THEN [kind |-> "markdown", doc |-> st[src].doc] ELSE st[n]])

ProcessFileTry(file_info, st, renderOK, uploadOK) ==
    LET parsed == parse_gcs_path(file_info.gcs_path)
        src == <<parsed.bucket_name, parsed.object_name>>
        dest == <<parsed.bucket_name, get_sibling_markdown_path(parsed.object_name)>>
        out(exc, ret, why, at, ops, st2) ==
            [exc |-> exc, ret |-> ret, reason |-> why, stage |-> at, ops |-> ops, store |-> st2]
    IN  IF parsed.raised THEN out(TRUE, FALSE, "path_format", "start", 0, st)
        ELSE IF src \notin DOMAIN st THEN out(FALSE, FALSE, "not_found", "parsed", 1, st)
        ELSE IF st[src].kind \notin {"gzip_html", "gzip_latin1"}
        THEN out(TRUE, FALSE, "decompress", "fetched", 2, st)
        ELSE IF st[src].kind # "gzip_html" THEN out(TRUE, FALSE, "decode", "decompressed", 2, st)
        ELSE IF ~renderOK THEN out(TRUE, FALSE, "render", "decoded", 2, st)
        ELSE IF ~uploadOK THEN out(TRUE, FALSE, "upload", "rendered", 3, st)
        ELSE out(FALSE, TRUE, "none", "stored", 3,
                 [n \in DOMAIN st \cup {dest} |->
                     IF n = dest THEN [kind |-> "markdown", doc |-> st[src].doc] ELSE st[n]])

\* mutant of process_file: no except clause, every exception leaves process_file
process_file_no_except(file_info, st, renderOK, uploadOK) ==
    ProcessFileTry(file_info, st, renderOK, uploadOK)

\* mutant of process_file: the except clause catches ValueError alone
process_file_only_value_error(file_info, st, renderOK, uploadOK) ==
    LET r == ProcessFileTry(file_info, st, renderOK, uploadOK)
    IN  IF r.exc /\ r.reason = "path_format" THEN [r EXCEPT !.exc = FALSE, !.ret = FALSE] ELSE r

\* mutant of process_file: an empty output object is created before the conversion
process_file_placeholder(file_info, st, renderOK, uploadOK) ==
    LET r == ProcessFileTry(file_info, st, renderOK, uploadOK)
        parsed == parse_gcs_path(file_info.gcs_path)
        dest == <<parsed.bucket_name, get_sibling_markdown_path(parsed.object_name)>>
        st2 == [n \in DOMAIN st \cup {dest} |->
                   IF n = dest THEN [kind |-> "markdown", doc |-> "empty"] ELSE st[n]]
    IN  IF r.exc
        THEN [r EXCEPT !.exc = FALSE, !.ret = FALSE,
                       !.store = IF r.reason \in {"decompress", "decode", "render"} THEN st2 ELSE st]
        ELSE r

process_file(file_info, st, renderOK, uploadOK) ==
    LET r == ProcessFileTry(file_info, st, renderOK, uploadOK)
    IN  IF r.exc THEN [r EXCEPT !.exc = FALSE, !.ret = FALSE] ELSE r

(***************************************************************************)
(* update_file_status: one UPDATE by id, committed; every exception is      *)
(* caught and reported as a return of False.                                *)
(***************************************************************************)
\* mutant of UpdateFileStatusTry: the UPDATE is kept when the commit fails
UpdateFileStatusTryNoRollback(led, file_id, status, dbOK, t) ==
    [exc |-> ~dbOK, ret |-> dbOK,
     ledger |-> [led EXCEPT ![file_id].status = status, ![file_id].updated_at = t]]

UpdateFileStatusTry(led, file_id, status, dbOK, t) ==
    IF dbOK
    THEN [exc |-> FALSE, ret |-> TRUE,
          ledger |-> [led EXCEPT ![file_id].status = status, ![file_id].updated_at = t]]
    ELSE [exc |-> TRUE, ret |-> FALSE, ledger |-> led]

\* mutant of update_file_status: no except clause
update_file_status_no_except(led, file_id, status, dbOK, t) ==
    UpdateFileStatusTry(led, file_id, status, dbOK, t)

\* mutant of update_file_status: the except clauses return True
update_file_status_swallows(led, file_id, status, dbOK, t) ==
    LET r == UpdateFileStatusTry(led, file_id, status, dbOK, t)
    IN  [r EXCEPT !.exc = FALSE, !.ret = TRUE]

update_file_status(led, file_id, status, dbOK, t) ==
    LET r == UpdateFileStatusTry(led, file_id, status, dbOK, t)
    IN  IF r.exc THEN [r EXCEPT !.exc = FALSE, !.ret = FALSE] ELSE r

\* mutant of StatusFor: the else branch writes 'converted' too
StatusForAlwaysConverted(ok) == "converted"

\* the status process_all_files writes after process_file returned ok
StatusFor(ok) == IF ok THEN "converted" ELSE "failed"

\* mutant of Tally: the increment is outside the if
TallyEveryFile(count, ok) == count + 1

\* successful_count after process_file returned ok
Tally(count, ok) == IF ok THEN count + 1 ELSE count

\* mutant of ExitCodeFor: success as soon as one file converted
ExitCodeForAnySuccess(successful, total) == IF successful > 0 THEN 0 ELSE 1

\* main's comparison of the two counts
ExitCodeFor(successful, total) == IF successful = total THEN 0 ELSE 1

(***************************************************************************)
(* Init: rows inserted one after the other (or in the opposite order of     *)
(* their ids), each with any status; an ingested row has any of the paths.  *)
(***************************************************************************)
NoneOf(v) == [i \in Ids |-> v]

Init ==
    /\ \E asc \in BOOLEAN :
       \E st \in [Ids -> Statuses] :
       \E gp \in [Ids -> Paths] :
          /\ \A i \in Ids : st[i] # "ingested" => gp[i] \in SettledPaths
          /\ ledger = [i \in Ids |->
                          [gcs_path |-> gp[i], status |-> st[i],
                           updated_at |-> IF asc THEN i ELSE NumRecords + 1 - i]]
    /\ store = InitialStore
    /\ now = NumRecords + 1
    /\ pc = "idle"
    /\ runs = 0
    /\ files = <<>>
    /\ idx = 0
    /\ successful_count = 0
    /\ file_ok = FALSE
    /\ result = <<>>
    /\ exit_code = -1
    /\ fatal = "none"
    /\ snap = ledger
    /\ store0 = store
    /\ attempts = NoneOf(0)
    /\ outcome = NoneOf("none")
    /\ reason = NoneOf("none")
    /\ stage = NoneOf("none")
    /\ status_writes = NoneOf(0)
    /\ status_arg = NoneOf("none")
    /\ status_ret = NoneOf("none")
    /\ gcs_ops = 0
    /\ fn = "none"
    /\ fn_arg = <<>>
    /\ fn_ret = <<>>

\* main's except clause and the interpreter's exit on an uncaught exception: exit code 1
Abort(why) ==
    /\ pc' = "done"
    /\ exit_code' = 1
    /\ fatal' = why

(***************************************************************************)
(* main up to the call of process_all_files: the check of the environment  *)
(* variables, storage.Client() and the converter's constructor.            *)
(***************************************************************************)
MainStart ==
    /\ pc \in {"idle", "done"}
    /\ runs < MaxRuns
    /\ runs' = runs + 1
    /\ snap' = ledger
    /\ store0' = store
    /\ files' = <<>>
    /\ idx' = 0
    /\ successful_count' = 0
    /\ file_ok' = FALSE
    /\ result' = <<>>
    /\ attempts' = NoneOf(0)
    /\ outcome' = NoneOf("none")
    /\ reason' = NoneOf("none")
    /\ stage' = NoneOf("none")
    /\ status_writes' = NoneOf(0)
    /\ status_arg' = NoneOf("none")
    /\ status_ret' = NoneOf("none")
    /\ gcs_ops' = 0
    /\ \E envOK, credentialsOK \in BOOLEAN :
          IF ~envOK THEN Abort("config")
          ELSE IF ~credentialsOK THEN Abort("credentials")
          ELSE pc' = "query" /\ exit_code' = -1 /\ fatal' = "none"
    /\ UNCHANGED <<ledger, store, now>>
    /\ UNCHANGED call

(***************************************************************************)
(* process_all_files up to the loop: the query; it re-raises its errors,    *)
(* and an empty list returns (0, 0), which main turns into exit code 0.     *)
(***************************************************************************)
GetIngestedFiles ==
    /\ pc = "query"
    /\ \E dbOK \in BOOLEAN :
          IF ~dbOK
          THEN /\ Abort("query")
               /\ UNCHANGED <<files, idx, result>>
          ELSE \E rows \in get_ingested_files(ledger) :
                  /\ files' = rows
                  /\ IF rows = <<>>
                     THEN /\ result' = <<0, 0>>
                          /\ exit_code' = ExitCodeFor(0, 0)
                          /\ pc' = "done"
                          /\ idx' = idx
                     ELSE /\ idx' = 1
                          /\ pc' = "file"
                          /\ UNCHANGED <<result, exit_code>>
                  /\ fatal' = fatal
    /\ UNCHANGED <<ledger, store, now, runs, successful_count, file_ok, snap, store0,
                   attempts, outcome, reason, stage, status_writes, status_arg,
                   status_ret, gcs_ops>>
    /\ UNCHANGED call

(***************************************************************************)
(* The loop body, first half: process_file on files[idx].                   *)
(***************************************************************************)
ProcessFile ==
    /\ pc = "file"
    /\ \E renderOK, uploadOK \in BOOLEAN :
          LET info == files[idx]
              r == process_file(info, store, renderOK, uploadOK)
          IN  /\ attempts' = [attempts EXCEPT ![info.id] = @ + 1]
              /\ reason' = [reason EXCEPT ![info.id] = r.reason]
              /\ stage' = [stage EXCEPT ![info.id] = r.stage]
              /\ gcs_ops' = gcs_ops + r.ops
              /\ store' = r.store
              /\ IF r.exc
                 THEN /\ Abort("pipeline")
                      /\ UNCHANGED <<outcome, file_ok, successful_count>>
                 ELSE /\ outcome' = [outcome EXCEPT ![info.id] = IF r.ret THEN "ok" ELSE "failed"]
                      /\ file_ok' = r.ret
                      /\ successful_count' = Tally(successful_count, r.ret)
                      /\ pc' = "status"
                      /\ UNCHANGED <<exit_code, fatal>>
    /\ UNCHANGED <<ledger, now, runs, files, idx, result, snap, store0,
                   status_writes, status_arg, status_ret>>
    /\ UNCHANGED call

(***************************************************************************)
(* The loop body, second half: update_file_status, whose return value is   *)
(* ignored; after the last file process_all_files returns the counts and    *)
(* main compares them.                                                      *)
(***************************************************************************)
UpdateFileStatus ==
    /\ pc = "status"
    /\ \E dbOK \in BOOLEAN :
          LET id == files[idx].id
              r == update_file_status(ledger, id, StatusFor(file_ok), dbOK, now)
          IN  /\ status_writes' = [status_writes EXCEPT ![id] = @ + 1]
              /\ status_arg' = [status_arg EXCEPT ![id] = StatusFor(file_ok)]
              /\ ledger' = r.ledger
              /\ now' = IF r.ledger # ledger THEN now + 1 ELSE now
              /\ IF r.exc
                 THEN /\ Abort("ledger_write")
                      /\ UNCHANGED <<status_ret, idx, result>>
                 ELSE /\ status_ret' = [status_ret EXCEPT ![id] = IF r.ret THEN "true" ELSE "false"]
                      /\ idx' = idx + 1
                      /\ IF idx = Len(files)
                         THEN /\ result' = <<successful_count, Len(files)>>
                              /\ exit_code' = ExitCodeFor(successful_count, Len(files))
                              /\ pc' = "done"
                         ELSE /\ pc' = "file"
                              /\ UNCHANGED <<result, exit_code>>
                      /\ fatal' = fatal
    /\ UNCHANGED <<store, runs, files, successful_count, file_ok, snap, store0,
                   attempts, outcome, reason, stage, gcs_ops>>
    /\ UNCHANGED call

Next == MainStart \/ GetIngestedFiles \/ ProcessFile \/ UpdateFileStatus

Spec == Init /\ [][Next]_vars

(***************************************************************************)
(* Properties of the batch.                                                *)
(***************************************************************************)
Eligible == {i \in Ids : snap[i].status = "ingested"}

Completed == pc = "done" /\ fatal = "none" /\ result # <<>>

\* C1: the status passed to the ledger for a handled record is 'converted' when its
\* process_file succeeded and 'failed' when it did not, and whenever that write
\* succeeded the record's status is 'converted' exactly when the pipeline succeeded
\* and 'failed' exactly when it failed.
C1_StatusFollowsOutcome ==
    \A i \in Ids :
        status_writes[i] > 0 =>
            /\ outcome[i] \in {"ok", "failed"}
            /\ status_arg[i] = (IF outcome[i] = "ok" THEN "converted" ELSE "failed")
            /\ status_ret[i] = "true" =>
                  /\ ledger[i].status = "converted" <=> outcome[i] = "ok"
                  /\ ledger[i].status = "failed" <=> outcome[i] = "failed"

\* a finished batch with one record converted and one record failed, both written
C1_Witness ==
    /\ Completed
    /\ \E i, j \in Ids :
          /\ outcome[i] = "ok" /\ status_ret[i] = "true" /\ ledger[i].status = "converted"
          /\ outcome[j] = "failed" /\ status_ret[j] = "true" /\ ledger[j].status = "failed"

\* C3: process_all_files returns (number of eligible records whose pipeline succeeded,
\* number of records the eligibility query returned), so 0 <= succeeded <= total; with
\* no eligible record it returns (0, 0) without any object-store request or ledger write.
C3_ReturnsCounts ==
    result # <<>> =>
        /\ result[2] = Cardinality(Eligible)
        /\ result[2] = Len(files)
        /\ result[1] = Cardinality({i \in Eligible : outcome[i] = "ok"})
        /\ 0 <= result[1] /\ result[1] <= result[2]
        /\ Eligible = {} =>
              /\ result = <<0, 0>>
              /\ gcs_ops = 0
              /\ store = store0
              /\ ledger = snap
              /\ \A i \in Ids : attempts[i] = 0 /\ status_writes[i] = 0

\* a batch of two eligible records returned (1, 2)
C3_Witness ==
    /\ pc = "done"
    /\ result = <<1, 2>>
    /\ \E i, j \in Eligible : outcome[i] = "ok" /\ outcome[j] = "failed"

\* C4: a record whose status is not 'ingested' when the query runs is not returned by
\* it, is never passed to process_file or update_file_status, and keeps its status and
\* its timestamp through the batch.
C4_OnlyIngestedProcessed ==
    /\ \A k \in 1..Len(files) : files[k].id \in Eligible
    /\ \A i \in Ids \ Eligible :
          /\ attempts[i] = 0
          /\ status_writes[i] = 0
          /\ ledger[i] = snap[i]

\* a finished batch that processed one record and left a pending, a converted or a
\* failed one alone
C4_Witness ==
    /\ Completed
    /\ \E i, j \in Ids :
          /\ snap[i].status \in {"pending", "converted", "failed"}
          /\ ledger[i] = snap[i]
          /\ attempts[j] = 1 /\ ledger[j].status # snap[j].status

\* C2: the failure of one record's pipeline changes neither the store nor the ledger
\* nor the list, and the loop goes on to that record's status write; the loop never
\* stops inside the list: at each record the pipeline step leads to its status write,
\* which leads to the next record or, after the last one, to the return of the counts; at that point every eligible record has had exactly one
\* pipeline attempt and exactly one status-write attempt.
C2_FailureIsolated ==
    /\ [](\A i \in Ids : attempts[i] <= 1 /\ status_writes[i] <= attempts[i])
    /\ [](Completed => \A i \in Eligible : attempts[i] = 1 /\ status_writes[i] = 1)
    /\ [][(pc = "file" /\ outcome'[files[idx].id] # "ok") =>
             /\ store' = store /\ ledger' = ledger /\ files' = files
             /\ pc' = "status" /\ fatal' = "none"]_vars
    /\ [](pc \in {"file", "status"} => idx \in 1..Len(files) /\ fatal = "none")
    /\ [][pc = "file" =>
             /\ pc' = "status" /\ idx' = idx
             /\ attempts' = [attempts EXCEPT ![files[idx].id] = @ + 1]
             /\ status_writes' = status_writes]_vars
    /\ [][pc = "status" =>
             /\ idx' = idx + 1
             /\ status_writes' = [status_writes EXCEPT ![files[idx].id] = @ + 1]
             /\ attempts' = attempts
             /\ IF idx < Len(files) THEN pc' = "file" ELSE Completed']_vars

\* the first record of a batch of two has no object and failed, the second converted
C2_Witness ==
    /\ Completed
    /\ Len(files) = 2
    /\ reason[files[1].id] = "not_found" /\ ledger[files[1].id].status = "failed"
    /\ outcome[files[2].id] = "ok" /\ ledger[files[2].id].status = "converted"
    /\ result = <<1, 2>>

DestOf(info) ==
    <<parse_gcs_path(info.gcs_path).bucket_name,
      get_sibling_markdown_path(parse_gcs_path(info.gcs_path).object_name)>>

\* C5 as claimed: a record whose pipeline failed leaves the store as it was and, once
\* its status write was attempted, has status 'failed'.
C5_Original ==
    /\ (\A j \in Ids : outcome[j] # "ok") => store = store0
    /\ \A i \in Ids :
          (outcome[i] = "failed" /\ status_writes[i] > 0) => ledger[i].status = "failed"

\* C5, amended: process_file changes the store only when every step succeeded, and
\* then only at the derived output path; when a step fails the later steps are not
\* run and the store is left as it was; the status write attempted for that record is
\* 'failed', and the record is 'failed' whenever that write succeeded.
C5_NoPartialWrite ==
    /\ [][pc = "file" =>
             /\ store' # store =>
                   /\ outcome'[files[idx].id] = "ok"
                   /\ stage'[files[idx].id] = "stored"
                   /\ \A n \in DOMAIN store : n # DestOf(files[idx]) => store'[n] = store[n]
                   /\ DOMAIN store' = DOMAIN store \cup {DestOf(files[idx])}
             /\ outcome'[files[idx].id] # "ok" =>
                   /\ store' = store
                   /\ stage'[files[idx].id] # "stored"
                   /\ reason'[files[idx].id] # "upload" => gcs_ops' <= gcs_ops + 2]_vars
    /\ [](\A i \in Ids :
            (outcome[i] = "failed" /\ status_writes[i] > 0) =>
                /\ status_arg[i] = "failed"
                /\ status_ret[i] = "true" => ledger[i].status = "failed")

\* a corrupted gzip payload at an existing path: decompression failed after the fetch,
\* nothing was stored and the record is 'failed'
C5_Witness ==
    /\ Completed
    /\ \E i \in Ids :
          /\ snap[i].gcs_path = PathCorrupt
          /\ ObjectName(PathCorrupt) \in DOMAIN store0
          /\ reason[i] = "decompress" /\ stage[i] = "fetched"
          /\ DestOf(snap[i]) \notin DOMAIN store
          /\ ledger[i].status = "failed"

FailureReasons == {"path_format", "not_found", "decompress", "decode", "render", "upload"}

\* C6: a malformed path, an absent object, a decompression error, a decode error, a
\* renderer failure and a destination write failure each make process_file return
\* False for that file, and no error of process_file reaches its caller.
C6_ErrorsCaught ==
    /\ fatal # "pipeline"
    /\ \A i \in Ids :
          attempts[i] > 0 =>
             /\ outcome[i] \in {"ok", "failed"}
             /\ outcome[i] = "failed" <=> reason[i] \in FailureReasons
             /\ outcome[i] = "ok" <=> reason[i] = "none"
             /\ ~StartsWith(snap[i].gcs_path, GS) => reason[i] = "path_format"
             /\ (StartsWith(snap[i].gcs_path, GS) /\ ObjectName(snap[i].gcs_path) \notin DOMAIN store)
                   => reason[i] = "not_found"
             /\ (StartsWith(snap[i].gcs_path, GS) /\ ObjectName(snap[i].gcs_path) \in DOMAIN store) =>
                   /\ store[ObjectName(snap[i].gcs_path)].kind = "not_gzip" => reason[i] = "decompress"
                   /\ store[ObjectName(snap[i].gcs_path)].kind = "gzip_latin1" => reason[i] = "decode"
                   /\ store[ObjectName(snap[i].gcs_path)].kind = "gzip_html"
                         => reason[i] \in {"none", "render", "upload"}

\* a finished batch in which one file failed on its path and another on the upload
C6_Witness ==
    /\ Completed
    /\ \E i, j \in Ids :
          /\ reason[i] = "path_format" /\ outcome[i] = "failed"
          /\ reason[j] = "upload" /\ outcome[j] = "failed"

C8_LedgerWriteFailure ==
    /\ [](fatal # "ledger_write")
    /\ [](\A i \in Ids :
            status_writes[i] > 0 =>
               /\ status_ret[i] \in {"true", "false"}
               /\ status_ret[i] = "false" <=> ledger[i] = snap[i]
               /\ status_ret[i] = "true" <=> ledger[i].status = status_arg[i])
    /\ [][(pc = "status" /\ status_ret'[files[idx].id] = "false") =>
             /\ ledger' = ledger
             /\ fatal' = "none"
             /\ idx' = idx + 1
             /\ IF idx < Len(files)
                THEN pc' = "file"
                ELSE pc' = "done" /\ result' = <<successful_count, Len(files)>>]_vars

\* the status write of the first record of a batch failed and the second record was
\* processed and written
C8_Witness ==
    /\ Completed
    /\ Len(files) = 2
    /\ status_ret[files[1].id] = "false" /\ ledger[files[1].id].status = "ingested"
    /\ attempts[files[2].id] = 1 /\ status_ret[files[2].id] = "true"

C10_ExitCode ==
    (pc = "done" /\ fatal = "none") =>
        /\ exit_code \in {0, 1}
        /\ exit_code = 0 <=> \A i \in Eligible : outcome[i] = "ok"
        /\ exit_code = 1 <=> \E i \in Eligible : outcome[i] = "failed"

\* a batch of two records, both converted: exit code 0
C10_Witness ==
    /\ Completed
    /\ exit_code = 0
    /\ Len(files) = 2
    /\ \A i \in Eligible : outcome[i] = "ok" /\ ledger[i].status = "converted"

\* C11: the list is in the order of the query, most recently updated first, and is
\* worked through one record at a time in that order: when the pipeline of the record
\* at idx is about to run, every record before it has had its pipeline and its status
\* write and no record after it has had either; while a status write is due, the
\* pipeline of that record alone has run since the preceding status write.
C11_Sequential ==
    /\ \A a, b \in 1..Len(files) :
          a < b => /\ snap[files[a].id].updated_at >= snap[files[b].id].updated_at
                   /\ files[a].id # files[b].id
    /\ pc \in {"file", "status"} =>
          /\ \A k \in 1..Len(files) :
                k < idx => attempts[files[k].id] = 1 /\ status_writes[files[k].id] = 1
          /\ \A k \in 1..Len(files) :
                k > idx => attempts[files[k].id] = 0 /\ status_writes[files[k].id] = 0
          /\ status_writes[files[idx].id] = 0
          /\ attempts[files[idx].id] = (IF pc = "status" THEN 1 ELSE 0)

\* the status write of the first record of two is done, the pipeline of the second,
\* less recently updated, is about to run
C11_Witness ==
    /\ pc = "file"
    /\ idx = 2
    /\ Len(files) = 2
    /\ snap[files[1].id].updated_at > snap[files[2].id].updated_at
    /\ status_writes[files[1].id] = 1
    /\ attempts[files[2].id] = 0

(***************************************************************************)
(* The path functions called on their own: parse_gcs_path and process_file  *)
(* on any string made of a prefix and a short body, and                     *)
(* get_sibling_markdown_path on any key made of a directory, a short stem   *)
(* and up to two extensions.                                                *)
(***************************************************************************)
MaxBodyLen == 4
MaxStemLen == 2

Strings(alphabet, n) == UNION {[1..k -> alphabet] : k \in 0..n}

PathPrefixes ==
    {<<>>, GS, <<"g", "s", ":", "/">>, <<"G", "S", ":", "/", "/">>,
     <<"s", "3", ":", "/", "/">>, <<"/">> \o GS}

BodyChars == {"b", "/", ".", "?", "#"}

PathInputs == {pre \o body : pre \in PathPrefixes, body \in Strings(BodyChars, MaxBodyLen)}

KeyDirs == {<<>>, <<"d", "/">>, <<"a", "/", "b", "/", "c", "/">>}

KeyExtensions ==
    {<<>>, HTML, HTM, GZ, <<".", "G", "Z">>, <<".", "H", "T", "M", "L">>, <<".", "t", "x", "t">>}

\* file names: not empty and not ending with "."
KeyNames ==
    {name \in {stem \o e1 \o e2 : stem \in Strings({"p", "."}, MaxStemLen),
                                  e1 \in KeyExtensions, e2 \in KeyExtensions} :
        name # <<>> /\ name[Len(name)] # "."}

\* the keys of the tests and of the docstrings, with the path expected for each
ExampleKeys ==
    {[key |-> <<"d", "o", "c", "s", "/", "p", "a", "g", "e", ".", "h", "t", "m", "l", ".", "g", "z">>,
      out |-> <<"d", "o", "c", "s", "/", "m", "a", "r", "k", "d", "o", "w", "n", "/", "p", "a", "g", "e", ".", "m", "d">>],
     [key |-> <<"p", "a", "g", "e", "s", "/", "i", "n", "d", "e", "x", ".", "h", "t", "m", ".", "g", "z">>,
      out |-> <<"p", "a", "g", "e", "s", "/", "m", "a", "r", "k", "d", "o", "w", "n", "/", "i", "n", "d", "e", "x", ".", "m", "d">>],
     [key |-> <<"r", "e", "a", "d", "m", "e", ".", "h", "t", "m", "l", ".", "g", "z">>,
      out |-> <<"m", "a", "r", "k", "d", "o", "w", "n", "/", "r", "e", "a", "d", "m", "e", ".", "m", "d">>],
     [key |-> <<"a", "/", "b", "/", "c", "/", "f", "i", "l", "e", ".", "h", "t", "m", "l", ".", "g", "z">>,
      out |-> <<"a", "/", "b", "/", "c", "/", "m", "a", "r", "k", "d", "o", "w", "n", "/", "f", "i", "l", "e", ".", "m", "d">>]}

KeyInputs ==
    {dir \o name : dir \in KeyDirs, name \in KeyNames} \cup {ex.key : ex \in ExampleKeys}

\* the batch is not running
BatchAtRest ==
    /\ ledger = [i \in Ids |-> [gcs_path |-> PathPageHtml, status |-> "pending", updated_at |-> i]]
    /\ store = InitialStore
    /\ now = NumRecords + 1
    /\ pc = "idle"
    /\ runs = 0
    /\ files = <<>>
    /\ idx = 0
    /\ successful_count = 0
    /\ file_ok = FALSE
    /\ result = <<>>
    /\ exit_code = -1
    /\ fatal = "none"
    /\ snap = ledger
    /\ store0 = store
    /\ attempts = NoneOf(0)
    /\ outcome = NoneOf("none")
    /\ reason = NoneOf("none")
    /\ stage = NoneOf("none")
    /\ status_writes = NoneOf(0)
    /\ status_arg = NoneOf("none")
    /\ status_ret = NoneOf("none")
    /\ gcs_ops = 0

PathInit ==
    /\ BatchAtRest
    /\ fn = "call"
    /\ fn_ret = <<>>
    /\ \/ \E x \in PathInputs : fn_arg = [f |-> "parse_gcs_path", x |-> x]
       \/ \E x \in PathInputs : fn_arg = [f |-> "process_file", x |-> x]
       \/ \E x \in KeyInputs : fn_arg = [f |-> "get_sibling_markdown_path", x |-> x]

Return(value) ==
    /\ fn = "call"
    /\ fn' = "returned"
    /\ fn_ret' = value
    /\ UNCHANGED fn_arg
    /\ UNCHANGED batch

CallParseGcsPath ==
    /\ fn_arg.f = "parse_gcs_path"
    /\ Return(parse_gcs_path(fn_arg.x))

\* process_file on a row with this path, every object-store and renderer call succeeding
CallProcessFile ==
    /\ fn_arg.f = "process_file"
    /\ Return(process_file([id |-> 1, gcs_path |-> fn_arg.x], store, TRUE, TRUE))

CallGetSiblingMarkdownPath ==
    /\ fn_arg.f = "get_sibling_markdown_path"
    /\ Return(get_sibling_markdown_path(fn_arg.x))

PathNext == CallParseGcsPath \/ CallProcessFile \/ CallGetSiblingMarkdownPath

PathSpec == PathInit /\ [][PathNext]_vars

Returned(f) == fn = "returned" /\ fn_arg.f = f

\* the five characters g s : / / open the string
HasScheme(x) ==
    /\ Len(x) >= 5
    /\ x[1] = "g" /\ x[2] = "s" /\ x[3] = ":" /\ x[4] = "/" /\ x[5] = "/"

\* C12: parse_gcs_path raises its invalid-path-format error for every input that does
\* not begin with gs://, and for no other; process_file on a row with such a path
\* returns False for that reason without a request to the object store.
C12_NoSchemeFails ==
    /\ Returned("parse_gcs_path") => (fn_ret.raised <=> ~HasScheme(fn_arg.x))
    /\ (Returned("process_file") /\ ~HasScheme(fn_arg.x)) =>
          /\ ~fn_ret.exc
          /\ ~fn_ret.ret
          /\ fn_ret.reason = "path_format"
          /\ fn_ret.ops = 0
          /\ fn_ret.store = store

\* process_file returned for a path with one slash too few after the scheme
C12_Witness ==
    /\ Returned("process_file")
    /\ fn_arg.x = <<"g", "s", ":", "/", "b", "/", "b">>
    /\ fn_ret.reason = "path_format"

\* a valid path: gs://, a bucket name without "/", "?" or "#", a "/", then the key
ValidGcsPath(x) ==
    /\ HasScheme(x)
    /\ \E k \in 7..Len(x) :
          /\ x[k] = "/"
          /\ \A j \in 6..(k - 1) : x[j] \notin {"/", "?", "#"}

\* C13: for every valid gs://bucket/key input the two parts returned are an exact
\* split of the input: gs:// + bucket + / + key is the input again.
C13_RoundTrip ==
    (Returned("parse_gcs_path") /\ ValidGcsPath(fn_arg.x)) =>
        /\ ~fn_ret.raised
        /\ GS \o fn_ret.bucket_name \o <<"/">> \o fn_ret.object_name = fn_arg.x

\* the bucket is always the part between the scheme and the first "/"
C13_BucketExact ==
    (Returned("parse_gcs_path") /\ ValidGcsPath(fn_arg.x)) =>
        /\ ~fn_ret.raised
        /\ \E k \in 7..Len(fn_arg.x) :
              /\ fn_arg.x[k] = "/"
              /\ fn_ret.bucket_name = SubSeq(fn_arg.x, 6, k - 1)

\* the key is rebuilt exactly when it has no "?" or "#" and does not begin with "/"
C13_PlainKeyExact ==
    (/\ Returned("parse_gcs_path")
     /\ ValidGcsPath(fn_arg.x)
     /\ \A j \in 1..Len(fn_arg.x) : fn_arg.x[j] \notin {"?", "#"}
     /\ \A j \in 1..(Len(fn_arg.x) - 1) : ~(fn_arg.x[j] = "/" /\ fn_arg.x[j + 1] = "/" /\ j > 5
                                            /\ \A m \in 6..(j - 1) : fn_arg.x[m] # "/")) =>
        GS \o fn_ret.bucket_name \o <<"/">> \o fn_ret.object_name = fn_arg.x

\* the characters after the last "/" of a key, and those before it
LastSlash(key) == IF \E k \in 1..Len(key) : key[k] = "/"
                  THEN CHOOSE k \in 1..Len(key) : key[k] = "/" /\ \A j \in (k + 1)..Len(key) : key[j] # "/"
                  ELSE 0

FileNameOf(key) == SubSeq(key, LastSlash(key) + 1, Len(key))

DirectoryOf(key) == SubSeq(key, 1, LastSlash(key) - 1)

\* a name carries a suffix when it ends with it and something comes before it
HasSuffix(name, suffix) ==
    /\ Len(name) > Len(suffix)
    /\ SubSeq(name, Len(name) - Len(suffix) + 1, Len(name)) = suffix

DropLast(name, n) == SubSeq(name, 1, Len(name) - n)

\* the name without its last extension
StemOf(name) ==
    LET dots == {k \in 2..(Len(name) - 1) : name[k] = "."}
    IN  IF dots = {} THEN name
        ELSE DropLast(name, Len(name) + 1 - (CHOOSE k \in dots : \A j \in dots : j <= k))

\* <name> of the output file: the compression suffix goes if present, then .html or
\* .htm goes if present; otherwise the stem of the file name
MarkdownNameOf(name) ==
    LET uncompressed == IF HasSuffix(name, GZ) \/ HasSuffix(name, <<".", "G", "Z">>)
                        THEN DropLast(name, 3) ELSE name
    IN  IF HasSuffix(uncompressed, HTML) THEN DropLast(uncompressed, 5)
        ELSE IF HasSuffix(uncompressed, HTM) THEN DropLast(uncompressed, 4)
        ELSE StemOf(name)

ExpectedSibling(key) ==
    (IF LastSlash(key) = 0 THEN <<>> ELSE DirectoryOf(key) \o <<"/">>)
        \o <<"m", "a", "r", "k", "d", "o", "w", "n", "/">>
        \o MarkdownNameOf(FileNameOf(key)) \o <<".", "m", "d">>

\* C14: get_sibling_markdown_path(key) is <parent directory>/markdown/<name>.md, with
\* <name> the file name without a trailing compression suffix and then without .html
\* or .htm (otherwise the stem); a key without a parent directory gives
\* markdown/<name>.md with no leading separator; the four examples come out as listed.
C14_SiblingPath ==
    Returned("get_sibling_markdown_path") =>
        /\ fn_ret = ExpectedSibling(fn_arg.x)
        /\ fn_ret[1] # "/"
        /\ \A ex \in ExampleKeys : fn_arg.x = ex.key => fn_ret = ex.out

\* the call returned for a compressed .htm file in a directory
C14_Witness ==
    /\ Returned("get_sibling_markdown_path")
    /\ fn_arg.x = <<"p", "a", "g", "e", "s", "/", "i", "n", "d", "e", "x", ".", "h", "t", "m", ".", "g", "z">>
    /\ fn_ret = <<"p", "a", "g", "e", "s", "/", "m", "a", "r", "k", "d", "o", "w", "n", "/",
                  "i", "n", "d", "e", "x", ".", "m", "d">>

(***************************************************************************)
(* _clean_markdown: the regular-expression substitutions of re.sub, each    *)
(* one pass from left to right over matches that do not overlap, \s* taking *)
(* as much white space as it can.                                           *)
(***************************************************************************)
Whitespace == {" ", "\t", "\n", "\r", "\f"}

Bullets == {"-", "*", "+"}

Max(S) == CHOOSE k \in S : \A j \in S : j <= k

\* the last position of the white space that follows position i (i when none follows)
WsEnd(s, i) == Max({k \in i..Len(s) : \A j \in (i + 1)..k : s[j] \in Whitespace})

NewlinesIn(s, a, b) == {k \in a..b : s[k] = "\n"}

\* the number of "#" that follow position i
HashesAfter(s, i) == Max({k \in i..Len(s) : \A j \in (i + 1)..k : s[j] = "#"}) - i

\* r"\n\s*\n(\s*[-*+])" matches at i
MatchListGap(s, i) ==
    /\ s[i] = "\n"
    /\ NewlinesIn(s, i + 1, WsEnd(s, i)) # {}
    /\ WsEnd(s, i) < Len(s)
    /\ s[WsEnd(s, i) + 1] \in Bullets

\* re.sub(r"\n\s*\n(\s*[-*+])", r"\n\1", markdown), from position cur on
RECURSIVE SubListGap(_, _)
SubListGap(s, cur) ==
    IF cur > Len(s) THEN <<>>
    ELSE IF MatchListGap(s, cur)
    THEN LET r == WsEnd(s, cur)
             l == Max(NewlinesIn(s, cur + 1, r))
         IN  <<"\n">> \o SubSeq(s, l + 1, r + 1) \o SubListGap(s, r + 2)
    ELSE <<s[cur]>> \o SubListGap(s, cur + 1)

\* r"\n(#{1,6}\s)" matches at i
MatchHeaderStart(s, i) ==
    /\ s[i] = "\n"
    /\ HashesAfter(s, i) \in 1..6
    /\ i + HashesAfter(s, i) < Len(s)
    /\ s[i + HashesAfter(s, i) + 1] \in Whitespace

\* re.sub(r"\n(#{1,6}\s)", r"\n\n\1", markdown), from position cur on
RECURSIVE SubHeaderStart(_, _)
SubHeaderStart(s, cur) ==
    IF cur > Len(s) THEN <<>>
    ELSE IF MatchHeaderStart(s, cur)
    THEN LET e == cur + HashesAfter(s, cur) + 1
         IN  <<"\n", "\n">> \o SubSeq(s, cur + 1, e) \o SubHeaderStart(s, e + 1)
    ELSE <<s[cur]>> \o SubHeaderStart(s, cur + 1)

\* the first line break at or after position i, 0 when the line is the last
LineEnd(s, i) ==
    IF NewlinesIn(s, i, Len(s)) = {} THEN 0
    ELSE CHOOSE k \in NewlinesIn(s, i, Len(s)) : \A j \in NewlinesIn(s, i, Len(s)) : k <= j

\* r"(#{1,6}.*)\n([^\n#])" matches at i
MatchHeaderEnd(s, i) ==
    /\ s[i] = "#"
    /\ LineEnd(s, i) # 0
    /\ LineEnd(s, i) < Len(s)
    /\ s[LineEnd(s, i) + 1] \notin {"\n", "#"}

\* re.sub(r"(#{1,6}.*)\n([^\n#])", r"\1\n\n\2", markdown), from position cur on
RECURSIVE SubHeaderEnd(_, _)
SubHeaderEnd(s, cur) ==
    IF cur > Len(s) THEN <<>>
    ELSE IF MatchHeaderEnd(s, cur)
    THEN LET e == LineEnd(s, cur)
         IN  SubSeq(s, cur, e) \o <<"\n", s[e + 1]>> \o SubHeaderEnd(s, e + 2)
    ELSE <<s[cur]>> \o SubHeaderEnd(s, cur + 1)

\* mutant of MatchBlankLines: r"\n\n\n", no white space between the line breaks
MatchBlankLinesNoSpaces(s, i) ==
    /\ s[i] = "\n"
    /\ i + 2 <= Len(s)
    /\ s[i + 1] = "\n"
    /\ s[i + 2] = "\n"

\* r"\n\s*\n\s*\n+" (and r"\n\s*\n\s*\n") matches at i
MatchBlankLines(s, i) ==
    /\ s[i] = "\n"
    /\ Cardinality(NewlinesIn(s, i + 1, WsEnd(s, i))) >= 2

\* re.search(r"\n\s*\n\s*\n", markdown)
SearchBlankLines(s) == \E i \in 1..Len(s) : MatchBlankLines(s, i)

\* re.sub(r"\n\s*\n\s*\n+", "\n\n", markdown), from position cur on
RECURSIVE SubBlankLines(_, _)
SubBlankLines(s, cur) ==
    IF cur > Len(s) THEN <<>>
    ELSE IF MatchBlankLines(s, cur)
    THEN <<"\n", "\n">> \o SubBlankLines(s, Max(NewlinesIn(s, cur + 1, WsEnd(s, cur))) + 1)
    ELSE <<s[cur]>> \o SubBlankLines(s, cur + 1)

\* the while loop of lines 269-270
RECURSIVE CollapseBlankLines(_)
CollapseBlankLines(s) ==
    IF SearchBlankLines(s) THEN CollapseBlankLines(SubBlankLines(s, 1)) ELSE s

\* r"\|\s*\|\s*\|" matches at i
MatchEmptyCells(s, i) ==
    /\ s[i] = "|"
    /\ WsEnd(s, i) < Len(s)
    /\ s[WsEnd(s, i) + 1] = "|"
    /\ WsEnd(s, WsEnd(s, i) + 1) < Len(s)
    /\ s[WsEnd(s, WsEnd(s, i) + 1) + 1] = "|"

\* re.sub(r"\|\s*\|\s*\|", "| |", markdown), from position cur on
RECURSIVE SubEmptyCells(_, _)
SubEmptyCells(s, cur) ==
    IF cur > Len(s) THEN <<>>
    ELSE IF MatchEmptyCells(s, cur)
    THEN <<"|", " ", "|">> \o SubEmptyCells(s, WsEnd(s, WsEnd(s, cur) + 1) + 2)
    ELSE <<s[cur]>> \o SubEmptyCells(s, cur + 1)

\* str.strip()
Strip(s) ==
    LET keep == {k \in 1..Len(s) : s[k] \notin Whitespace}
    IN  IF keep = {} THEN <<>>
        ELSE SubSeq(s, CHOOSE k \in keep : \A j \in keep : k <= j, Max(keep))

\* the last three steps of _clean_markdown (lines 267-276)
CollapseTableTrim(markdown) == Strip(SubEmptyCells(CollapseBlankLines(markdown), 1))

clean_markdown(markdown) ==
    CollapseTableTrim(SubHeaderEnd(SubHeaderStart(SubListGap(markdown, 1), 1), 1))

(***************************************************************************)
(* _clean_markdown called on its own, on every text of up to MaxTextLen     *)
(* characters, and its last three steps applied to a text and then to       *)
(* their own output.                                                        *)
(***************************************************************************)
MaxTextLen == 6

TextChars == {"\n", " ", "#", "-", "|", "a"}

TextInputs == Strings(TextChars, MaxTextLen)

\* the characters the last three steps look at, and one other
TableChars == {"\n", " ", "|", "a"}

TableInputs == Strings(TableChars, MaxTextLen)

MdInit ==
    /\ BatchAtRest
    /\ fn = "call"
    /\ fn_ret = <<>>
    /\ \/ \E x \in TextInputs : fn_arg = [f |-> "_clean_markdown", x |-> x]
       \/ \E x \in TableInputs : fn_arg = [f |-> "collapse_table_trim", x |-> x]

CallCleanMarkdown ==
    /\ fn_arg.f = "_clean_markdown"
    /\ Return(clean_markdown(fn_arg.x))

CallCollapseTableTrim ==
    /\ fn_arg.f = "collapse_table_trim"
    /\ Return(CollapseTableTrim(fn_arg.x))

\* the three steps again, on the text they returned
ReapplyCollapseTableTrim ==
    /\ fn = "returned"
    /\ fn_arg.f = "collapse_table_trim"
    /\ fn' = "reapplied"
    /\ fn_arg' = [fn_arg EXCEPT !.x = fn_ret]
    /\ fn_ret' = CollapseTableTrim(fn_ret)
    /\ UNCHANGED batch

MdNext == CallCleanMarkdown \/ CallCollapseTableTrim \/ ReapplyCollapseTableTrim

MdSpec == MdInit /\ [][MdNext]_vars

\* C19: the output of _clean_markdown has no three line breaks in a row, and no three
\* line breaks with nothing but white space between them.
C19_NoBlankRuns ==
    Returned("_clean_markdown") =>
        /\ \A i \in 1..(Len(fn_ret) - 2) :
              ~(fn_ret[i] = "\n" /\ fn_ret[i + 1] = "\n" /\ fn_ret[i + 2] = "\n")
        /\ \A i, j, k \in 1..Len(fn_ret) :
              (i < j /\ j < k /\ fn_ret[i] = "\n" /\ fn_ret[j] = "\n" /\ fn_ret[k] = "\n") =>
                  \E m \in i..k : fn_ret[m] \notin Whitespace

\* a text with a blank line and a white-space-only line in a row came back with one
C19_Witness ==
    /\ Returned("_clean_markdown")
    /\ fn_arg.x = <<"a", "\n", " ", "\n", "\n", "a">>
    /\ fn_ret = <<"a", "\n", "\n", "a">>

\* C20: blank-line collapse, table-row normalisation and trim, applied to a text they
\* have already been applied to, return it unchanged.
C20_Idempotent == fn = "reapplied" => fn_ret = fn_arg.x

\* without three "|" in a row the three steps do return their own output unchanged
C20_IdempotentWithoutEmptyCells ==
    (fn = "reapplied" /\ \A i \in 1..Len(fn_arg.x) : ~MatchEmptyCells(fn_arg.x, i)) =>
        fn_ret = fn_arg.x

(***************************************************************************)
(* clean_html.  A document is the sequence of its nodes in document order,  *)
(* each with the index of its parent; what is left of it after a removal is *)
(* the set of the indices still in the tree.                                *)
(***************************************************************************)
MaxTokens == 4

Node(kind, name, class, id, parent) ==
    [kind |-> kind, name |-> name, class |-> class, id |-> id, parent |-> parent]

Token(t, name, class, id) == [t |-> t, name |-> name, class |-> class, id |-> id]

\* start tags, the end tag of the innermost open element, an image, a text node that
\* is plain, only white space or begins with the characters <!-- (written &lt;!--),
\* and a comment
Tokens ==
    {Token("open", "nav", {}, ""),
     Token("open", "div", {}, ""),
     Token("open", "div", {"sidebar"}, ""),
     Token("open", "div", {}, "footer"),
     Token("open", "script", {}, ""),
     Token("open", "style", {}, ""),
     Token("open", "noscript", {}, ""),
     Token("end", "", {}, ""),
     Token("void", "img", {}, ""),
     Token("text", "plain", {}, ""),
     Token("text", "ws", {}, ""),
     Token("text", "marker", {}, ""),
     Token("comment", "plain", {}, "")}

HtmlInputs == Strings(Tokens, MaxTokens)

\* the tree the lxml builder makes of the markup, from token k on: html and body are
\* supplied, a start tag opens a child of the innermost open element, an end tag closes
\* it and is dropped when only body is open, and tags still open at the end are closed
RECURSIVE Build(_, _, _, _)
Build(tokens, k, nodes, open) ==
    IF k > Len(tokens) THEN nodes
    ELSE LET tok == tokens[k]
             top == open[Len(open)]
             kind == IF tok.t \in {"open", "void"} THEN "tag" ELSE tok.t
             added == Append(nodes, Node(kind, tok.name, tok.class, tok.id, top))
         IN  IF tok.t = "end"
             THEN Build(tokens, k + 1, nodes,
                        IF Len(open) > 2 THEN SubSeq(open, 1, Len(open) - 1) ELSE open)
             ELSE Build(tokens, k + 1, added,
                        IF tok.t = "open" THEN Append(open, Len(added)) ELSE open)

\* BeautifulSoup(html_content, "lxml"); a document without markup has no nodes
BeautifulSoup(tokens) ==
    IF tokens = <<>> THEN <<>>
    ELSE Build(tokens, 1, <<Node("tag", "html", {}, "", 0), Node("tag", "body", {}, "", 1)>>,
               <<1, 2>>)

RECURSIVE IsDescendant(_, _, _)
IsDescendant(soup, m, n) ==
    IF soup[m].parent = 0 THEN FALSE
    ELSE soup[m].parent = n \/ IsDescendant(soup, soup[m].parent, n)

\* element n and everything inside it
Subtree(soup, n) == {n} \cup {m \in 1..Len(soup) : IsDescendant(soup, m, n)}

\* mutant of Decompose: the whole document goes
DecomposeDocument(soup, tree, n) == {}

\* element.decompose()
Decompose(soup, tree, n) == tree \ Subtree(soup, n)

TagSelectors == {"nav", "footer", "header", "aside"}

ClassSelectors ==
    {"nav", "navigation", "navbar", "menu", "footer", "site-footer", "page-footer",
     "sidebar", "breadcrumb", "breadcrumbs", "social", "share", "sharing",
     "advertisement", "ads", "ad", "cookie-notice", "cookie-banner"}

IdSelectors ==
    {"nav", "navigation", "navbar", "menu", "footer", "site-footer", "page-footer",
     "sidebar", "breadcrumb", "breadcrumbs"}

\* self.remove_selectors: a tag name, ".class" or "#id"
remove_selectors ==
    {[by |-> "tag", value |-> v] : v \in TagSelectors}
        \cup {[by |-> ".", value |-> v] : v \in ClassSelectors}
        \cup {[by |-> "#", value |-> v] : v \in IdSelectors}

\* mutant of Select: "#id" selectors select nothing
SelectNoIds(soup, tree, selector) ==
    {n \in tree :
        /\ soup[n].kind = "tag"
        /\ CASE selector.by = "tag" -> soup[n].name = selector.value
             [] selector.by = "." -> selector.value \in soup[n].class
             [] selector.by = "#" -> FALSE}

\* identifiers that are not markers, each with the markers it contains
Contains ==
    {<<"main-nav", "nav">>, <<"adsense", "ads">>, <<"adsense", "ad">>,
     <<"navbar-top", "navbar">>, <<"navbar-top", "nav">>}

\* mutant of Select: a class or an id that contains the selector's value is selected too
SelectFuzzy(soup, tree, selector) ==
    {n \in tree :
        /\ soup[n].kind = "tag"
        /\ CASE selector.by = "tag" -> soup[n].name = selector.value
             [] selector.by = "." ->
                    \E c \in soup[n].class : c = selector.value \/ <<c, selector.value>> \in Contains
             [] selector.by = "#" ->
                    soup[n].id = selector.value \/ <<soup[n].id, selector.value>> \in Contains}

\* soup.select(".c"), soup.select("#i") or soup.find_all(tag)
Select(soup, tree, selector) ==
    {n \in tree :
        /\ soup[n].kind = "tag"
        /\ CASE selector.by = "tag" -> soup[n].name = selector.value
             [] selector.by = "." -> selector.value \in soup[n].class
             [] selector.by = "#" -> soup[n].id = selector.value}

\* the calls of decompose() of a loop over the elements found, in document order
RECURSIVE DecomposeAll(_, _, _)
DecomposeAll(soup, tree, elements) ==
    IF elements = {} THEN tree
    ELSE LET n == CHOOSE e \in elements : \A o \in elements : e <= o
         IN  DecomposeAll(soup, Decompose(soup, tree, n), elements \ {n})

\* the loop over remove_selectors.  A set has no order of its own and the tree that is
\* left does not depend on the order taken; a selector that selects nothing leaves the
\* tree as it is, now and later, so the turns taken here are those that select something
RECURSIVE RemoveSelected(_, _, _)
RemoveSelected(soup, tree, selectors) ==
    IF \A sel \in selectors : Select(soup, tree, sel) = {} THEN tree
    ELSE LET selector == CHOOSE sel \in selectors : Select(soup, tree, sel) # {}
         IN  RemoveSelected(soup, DecomposeAll(soup, tree, Select(soup, tree, selector)),
                            selectors \ {selector})

\* mutant of ScriptElements: noscript is not in the list
ScriptElementsNoNoscript(soup, tree) ==
    {n \in tree : soup[n].kind = "tag" /\ soup[n].name \in {"script", "style"}}

\* soup(["script", "style", "noscript"])
ScriptElements(soup, tree) ==
    {n \in tree : soup[n].kind = "tag" /\ soup[n].name \in {"script", "style", "noscript"}}

\* the strings whose str(), stripped, starts with <!--  (str() of a comment is its body)
MarkerStrings(soup, tree) ==
    {n \in tree : soup[n].kind \in {"text", "comment"} /\ soup[n].name = "marker"}

\* mutant of GetTextStrip: the strings are not stripped, white space counts as text
GetTextNoStrip(soup, tree, n) ==
    {m \in tree : IsDescendant(soup, m, n) /\ soup[m].kind = "text"}

\* tag.get_text(strip=True): the text strings inside the tag, stripped, comments left out
GetTextStrip(soup, tree, n) ==
    {m \in tree : /\ IsDescendant(soup, m, n)
                  /\ soup[m].kind = "text"
                  /\ soup[m].name # "ws"}

\* tag.find(["img", "br", "hr"])
FindImgBrHr(soup, tree, n) ==
    {m \in tree : /\ IsDescendant(soup, m, n)
                  /\ soup[m].kind = "tag"
                  /\ soup[m].name \in {"img", "br", "hr"}}

removable_if_empty == <<"p", "div", "span", "section", "article">>

\* the inner loop of _remove_empty_elements over the tags found, in document order
RECURSIVE RemoveEmptyAmong(_, _, _)
RemoveEmptyAmong(soup, tree, tags) ==
    IF tags = {} THEN tree
    ELSE LET n == CHOOSE e \in tags : \A o \in tags : e <= o
             empty == GetTextStrip(soup, tree, n) = {} /\ FindImgBrHr(soup, tree, n) = {}
         IN  RemoveEmptyAmong(soup, IF empty THEN Decompose(soup, tree, n) ELSE tree,
                              tags \ {n})

\* _remove_empty_elements, from the k-th tag name on
RECURSIVE remove_empty_elements(_, _, _)
remove_empty_elements(soup, tree, k) ==
    IF k > Len(removable_if_empty) THEN tree
    ELSE remove_empty_elements(
             soup,
             RemoveEmptyAmong(soup, tree,
                 {n \in tree : soup[n].kind = "tag" /\ soup[n].name = removable_if_empty[k]}),
             k + 1)

\* clean_html: the parsed document and the nodes of it that str(soup) writes out
clean_html(html_content) ==
    LET soup == BeautifulSoup(html_content)
        all == 1..Len(soup)
        selected == RemoveSelected(soup, all, remove_selectors)
        scripts == DecomposeAll(soup, selected, ScriptElements(soup, selected))
        comments == scripts \ MarkerStrings(soup, scripts)
    IN  [soup |-> soup, kept |-> remove_empty_elements(soup, comments, 1)]

HtmlInit ==
    /\ BatchAtRest
    /\ fn = "call"
    /\ fn_ret = <<>>
    /\ \E x \in HtmlInputs : fn_arg = [f |-> "clean_html", x |-> x]

CallCleanHtml ==
    /\ fn_arg.f = "clean_html"
    /\ Return(clean_html(fn_arg.x))

HtmlNext == CallCleanHtml

HtmlSpec == HtmlInit /\ [][HtmlNext]_vars

\* an element that a selector of the denylist matches
Denylisted(node) ==
    /\ node.kind = "tag"
    /\ \/ node.name \in TagSelectors
       \/ \E c \in node.class : c \in ClassSelectors
       \/ node.id \in IdSelectors

ScriptLike(node) == node.kind = "tag" /\ node.name \in {"script", "style", "noscript"}

\* node m is element n or lies inside it
Within(soup, m, n) == m = n \/ IsDescendant(soup, m, n)

\* a text node with something other than white space in it
IsText(node) == node.kind = "text" /\ node.name # "ws"

\* C15: of an element that matches a denylist selector (by tag, class or id) nothing
\* is in the output of clean_html: not the element, not its text, not anything nested
\* inside it.
C15_DenylistRemoved ==
    Returned("clean_html") =>
        \A n, m \in 1..Len(fn_ret.soup) :
            (Denylisted(fn_ret.soup[n]) /\ Within(fn_ret.soup, m, n)) => m \notin fn_ret.kept

\* a sidebar with text in a nested element went, the text before it stayed
C15_Witness ==
    /\ Returned("clean_html")
    /\ fn_arg.x = <<Token("text", "plain", {}, ""), Token("open", "div", {"sidebar"}, ""),
                    Token("open", "div", {}, ""), Token("text", "plain", {}, "")>>
    /\ fn_ret.kept = {1, 2, 3}

\* C17: every script, style and noscript element is removed with its content, wherever
\* it is in the document.
C17_ScriptsRemoved ==
    Returned("clean_html") =>
        \A n, m \in 1..Len(fn_ret.soup) :
            (ScriptLike(fn_ret.soup[n]) /\ Within(fn_ret.soup, m, n)) => m \notin fn_ret.kept

\* a noscript element with text, nested in an element with text of its own, went
C17_Witness ==
    /\ Returned("clean_html")
    /\ fn_arg.x = <<Token("open", "div", {}, ""), Token("text", "plain", {}, ""),
                    Token("open", "noscript", {}, ""), Token("text", "plain", {}, "")>>
    /\ fn_ret.kept = {1, 2, 3, 4}

\* node m is not in or under an element that the denylist or the script rule removes
OutsideRemoved(soup, m) ==
    \A n \in 1..Len(soup) :
        Within(soup, m, n) => ~Denylisted(soup[n]) /\ ~ScriptLike(soup[n])

\* C16: what no removal rule matches is preserved: in a document without a denylist
\* match every text is in the output, and in any document every text outside the
\* removed elements is in the output together with the elements around it (what is
\* left keeps the document's order, removal being all that is done to the tree).
C16_Preserved ==
    Returned("clean_html") =>
        /\ (\A n \in 1..Len(fn_ret.soup) : ~Denylisted(fn_ret.soup[n])) =>
              \A m \in 1..Len(fn_ret.soup) :
                  (IsText(fn_ret.soup[m]) /\ OutsideRemoved(fn_ret.soup, m)) => m \in fn_ret.kept
        /\ \A m, n \in 1..Len(fn_ret.soup) :
              (IsText(fn_ret.soup[m]) /\ OutsideRemoved(fn_ret.soup, m) /\ Within(fn_ret.soup, m, n))
                  => n \in fn_ret.kept

\* text that does not begin with <!-- is preserved, with the elements around it
C16_PlainTextPreserved ==
    Returned("clean_html") =>
        \A m, n \in 1..Len(fn_ret.soup) :
            (/\ fn_ret.soup[m].kind = "text"
             /\ fn_ret.soup[m].name = "plain"
             /\ OutsideRemoved(fn_ret.soup, m)
             /\ Within(fn_ret.soup, m, n)) => n \in fn_ret.kept

MarkerTokens ==
    {Token("open", "div", {"main-nav"}, ""),
     Token("open", "div", {"adsense"}, ""),
     Token("open", "div", {}, "navbar-top"),
     Token("open", "div", {"social"}, ""),
     Token("open", "div", {}, "social"),
     Token("open", "div", {}, ""),
     Token("end", "", {}, ""),
     Token("text", "plain", {}, "")}

MarkerInputs == Strings(MarkerTokens, MaxTokens)

\* the first loop of clean_html (lines 192-201): the parsed document and what is left
DenylistPass(html_content) ==
    LET soup == BeautifulSoup(html_content)
    IN  [soup |-> soup, kept |-> RemoveSelected(soup, 1..Len(soup), remove_selectors)]

MarkerInit ==
    /\ BatchAtRest
    /\ fn = "call"
    /\ fn_ret = <<>>
    /\ \E x \in MarkerInputs, f \in {"denylist_pass", "clean_html"} : fn_arg = [f |-> f, x |-> x]

CallDenylistPass ==
    /\ fn_arg.f = "denylist_pass"
    /\ Return(DenylistPass(fn_arg.x))

MarkerNext == CallDenylistPass \/ CallCleanHtml

MarkerSpec == MarkerInit /\ [][MarkerNext]_vars

\* an element that carries a class or an id, none of them a marker, on a tag that is
\* not denylisted
LookAlike(node) ==
    /\ node.kind = "tag"
    /\ node.name \notin TagSelectors
    /\ node.class # {} \/ node.id # ""
    /\ \A c \in node.class : c \notin ClassSelectors
    /\ node.id \notin ClassSelectors

\* C21: class and id are matched as whole identifiers: an element on a tag that is not
\* denylisted, whose class or id only contains or begins with a marker (main-nav,
\* adsense, navbar-top), is still in the tree after the denylist pass, unless it lies
\* inside an element that the pass removes.
C21_ExactTokens ==
    Returned("denylist_pass") =>
        \A n \in 1..Len(fn_ret.soup) :
            (/\ LookAlike(fn_ret.soup[n])
             /\ \A a \in 1..Len(fn_ret.soup) :
                   IsDescendant(fn_ret.soup, n, a) => ~Denylisted(fn_ret.soup[a]))
                => n \in fn_ret.kept

\* an element of class main-nav with text stayed, the element of class social went
C21_Witness ==
    /\ Returned("denylist_pass")
    /\ fn_arg.x = <<Token("open", "div", {"main-nav"}, ""), Token("text", "plain", {}, ""),
                    Token("end", "", {}, ""), Token("open", "div", {"social"}, "")>>
    /\ fn_ret.kept = {1, 2, 3, 4}

\* C22: every marker applies to id as it does to class: an element that carries one of
\* the markers as its id is not in the output of clean_html.
C22_IdLikeClass ==
    Returned("clean_html") =>
        \A n \in 1..Len(fn_ret.soup) :
            (fn_ret.soup[n].kind = "tag" /\ fn_ret.soup[n].id \in ClassSelectors)
                => n \notin fn_ret.kept

\* the markers that are in the id list do apply to id
C22_ListedIdsRemoved ==
    Returned("clean_html") =>
        \A n \in 1..Len(fn_ret.soup) :
            (fn_ret.soup[n].kind = "tag" /\ fn_ret.soup[n].id \in IdSelectors)
                => n \notin fn_ret.kept

\* C23: the output of clean_html has no comment node in it.
C23_NoComments ==
    Returned("clean_html") =>
        \A n \in 1..Len(fn_ret.soup) : fn_ret.soup[n].kind = "comment" => n \notin fn_ret.kept

(***************************************************************************)
(* clean_html on documents of wrappers (div, span, p) and other elements    *)
(* (b), nested, around boilerplate, images, line breaks, text and comments. *)
(***************************************************************************)
WrapperTokens ==
    {Token("open", "div", {}, ""),
     Token("open", "span", {}, ""),
     Token("open", "p", {}, ""),
     Token("open", "b", {}, ""),
     Token("open", "nav", {}, ""),
     Token("end", "", {}, ""),
     Token("void", "img", {}, ""),
     Token("void", "br", {}, ""),
     Token("text", "plain", {}, ""),
     Token("text", "ws", {}, ""),
     Token("text", "marker", {}, ""),
     Token("comment", "plain", {}, "")}

WrapperInputs == Strings(WrapperTokens, MaxTokens)

WrapperInit ==
    /\ BatchAtRest
    /\ fn = "call"
    /\ fn_ret = <<>>
    /\ \E x \in WrapperInputs : fn_arg = [f |-> "clean_html", x |-> x]

WrapperNext == CallCleanHtml

WrapperSpec == WrapperInit /\ [][WrapperNext]_vars

Wrapper(node) ==
    node.kind = "tag" /\ node.name \in {"p", "div", "span", "section", "article"}

\* what counts for a wrapper: text that is not white space, an image, a line break, a rule
Content(node) ==
    \/ node.kind = "text" /\ node.name = "plain"
    \/ node.kind = "tag" /\ node.name \in {"img", "br", "hr"}

\* C24: in the output of clean_html there is no p, div, span, section or article without
\* text and without img, br or hr inside it, so a second pass would remove nothing;
\* a wrapper outside the removed elements that has text or an img, br or hr left after
\* the removals is in the output, and one whose content was all removed is not.
C24_EmptyWrappers ==
    Returned("clean_html") =>
        /\ \A n \in fn_ret.kept :
              Wrapper(fn_ret.soup[n]) =>
                  \E m \in fn_ret.kept :
                      IsDescendant(fn_ret.soup, m, n) /\ Content(fn_ret.soup[m])
        /\ \A n, m \in 1..Len(fn_ret.soup) :
              (/\ Wrapper(fn_ret.soup[n])
               /\ IsDescendant(fn_ret.soup, m, n)
               /\ Content(fn_ret.soup[m])
               /\ OutsideRemoved(fn_ret.soup, m)) => n \in fn_ret.kept
        /\ \A n \in 1..Len(fn_ret.soup) :
              (/\ Wrapper(fn_ret.soup[n])
               /\ \A m \in 1..Len(fn_ret.soup) :
                     (IsDescendant(fn_ret.soup, m, n) /\ Content(fn_ret.soup[m]))
                         => ~OutsideRemoved(fn_ret.soup, m)) => n \notin fn_ret.kept
        /\ remove_empty_elements(fn_ret.soup, fn_ret.kept, 1) = fn_ret.kept

\* a paragraph in a div with nothing but a navigation element in it: both went
C24_Witness ==
    /\ Returned("clean_html")
    /\ fn_arg.x = <<Token("open", "div", {}, ""), Token("open", "p", {}, ""),
                    Token("open", "nav", {}, ""), Token("text", "plain", {}, "")>>
    /\ fn_ret.kept = {1, 2}

\* the lines of a text: what lies between its line breaks
LineStarts(s) == {1} \cup {k + 1 : k \in NewlinesIn(s, 1, Len(s))}

\* the line that starts at position a ends before position LineStop(s, a)
LineStop(s, a) == IF NewlinesIn(s, a, Len(s)) = {} THEN Len(s) + 1
                  ELSE CHOOSE k \in NewlinesIn(s, a, Len(s)) : \A j \in NewlinesIn(s, a, Len(s)) : k <= j

\* the line at a is empty or white space only
BlankLine(s, a) == \A j \in a..(LineStop(s, a) - 1) : s[j] \in Whitespace

\* the line at a is a heading: 1 to 6 "#", then white space (the line break included)
HeadingLine(s, a) ==
    \E h \in 1..6 :
        /\ a + h <= Len(s)
        /\ \A j \in a..(a + h - 1) : s[j] = "#"
        /\ s[a + h] \in Whitespace

\* the line at a starts, after indentation, with a list-item marker
MarkerLine(s, a) ==
    \E k \in a..(LineStop(s, a) - 1) :
        /\ s[k] \in Bullets
        /\ \A j \in a..(k - 1) : s[j] \in Whitespace

\* the line at b follows the line at a
NextLine(s, a, b) == LineStop(s, a) + 1 = b

\* C25: in the output of _clean_markdown every heading line but the first line has
\* exactly one blank line before it, and a heading line whose next line is neither
\* blank nor a heading has exactly one blank line after it.
C25_HeadingSpacing ==
    Returned("_clean_markdown") =>
        \A a, b \in LineStarts(fn_ret) :
            /\ (b <= Len(fn_ret) /\ HeadingLine(fn_ret, b) /\ NextLine(fn_ret, a, b))
                  => /\ BlankLine(fn_ret, a)
                     /\ a > 1
                     /\ \A c \in LineStarts(fn_ret) : NextLine(fn_ret, c, a) => ~BlankLine(fn_ret, c)
            /\ (/\ a <= Len(fn_ret) /\ HeadingLine(fn_ret, a) /\ NextLine(fn_ret, a, b)
                /\ b <= Len(fn_ret))
                  => BlankLine(fn_ret, b) \/ HeadingLine(fn_ret, b)

\* the line at a begins with "#"
HashLine(s, a) == a <= Len(s) /\ s[a] = "#"

\* away from table rows and from neighbouring lines that begin with "#", the spacing
\* of C25 holds
C25_SpacingAwayFromHashes ==
    (Returned("_clean_markdown") /\ \A k \in 1..Len(fn_ret) : fn_ret[k] # "|") =>
        \A a, b \in LineStarts(fn_ret) :
            /\ (/\ b <= Len(fn_ret) /\ HeadingLine(fn_ret, b) /\ NextLine(fn_ret, a, b)
                /\ ~HashLine(fn_ret, a))
                  => /\ BlankLine(fn_ret, a)
                     /\ a > 1
                     /\ \A c \in LineStarts(fn_ret) : NextLine(fn_ret, c, a) => ~BlankLine(fn_ret, c)
            /\ (/\ a <= Len(fn_ret) /\ HeadingLine(fn_ret, a) /\ NextLine(fn_ret, a, b)
                /\ b <= Len(fn_ret) /\ ~HashLine(fn_ret, b))
                  => BlankLine(fn_ret, b)

\* C26: in the output of _clean_markdown no list-item marker line has a blank line
\* before it.
C26_NoBlankBeforeMarker ==
    Returned("_clean_markdown") =>
        \A a, b \in LineStarts(fn_ret) :
            (b <= Len(fn_ret) /\ MarkerLine(fn_ret, b) /\ NextLine(fn_ret, a, b))
                => ~BlankLine(fn_ret, a)

\* a blank line is left before a list-item marker only after a line with a "#" in it
C26_OnlyAfterHash ==
    Returned("_clean_markdown") =>
        \A a, b \in LineStarts(fn_ret) :
            (/\ b <= Len(fn_ret) /\ MarkerLine(fn_ret, b) /\ NextLine(fn_ret, a, b)
             /\ BlankLine(fn_ret, a))
                => \E c \in LineStarts(fn_ret) :
                      /\ NextLine(fn_ret, c, a)
                      /\ \E k \in c..(LineStop(fn_ret, c) - 1) : fn_ret[k] = "#"

(***************************************************************************)
(* Successive runs of main over the same ledger and store.                 *)
(***************************************************************************)
Terminal == {"converted", "failed"}

WriteFailed(i) == status_ret[i] = "false"

WriteSucceeded(i) == status_ret[i] = "true"

\* what C27 says of one run and of the runs after it, apart from its last clause
C27_Common ==
    /\ [](\A i \in Ids :
            WriteFailed(i) =>
               /\ ledger[i].status = "ingested"
               /\ outcome[i] \in {"ok", "failed"}
               /\ outcome[i] = "ok" =>
                     /\ DestOf(snap[i]) \in DOMAIN store
                     /\ store[DestOf(snap[i])].kind = "markdown")
    /\ [](successful_count = Cardinality({i \in Ids : outcome[i] = "ok"}))
    /\ [](Completed => result[1] = Cardinality({i \in Ids : outcome[i] = "ok"}))
    /\ [][runs' = runs + 1 =>
             \A i \in Ids :
                /\ WriteFailed(i) => snap'[i].status = "ingested"
                /\ WriteSucceeded(i) => snap'[i].status \in Terminal]_vars
    /\ []((pc \in {"file", "status"} \/ result # <<>>) =>
             {files[k].id : k \in 1..Len(files)} = Eligible)
    /\ [](Completed => \A i \in Eligible : attempts[i] = 1)
    /\ [][\A i \in Ids : ledger[i].status \in Terminal => ledger'[i] = ledger[i]]_vars
    /\ [](\A i \in Ids : attempts[i] > 0 => snap[i].status = "ingested")
    /\ []((result # <<>> /\ Eligible = {}) => result = <<0, 0>>)

StoredAt(dest) ==
    {k \in 1..Len(files) : outcome[files[k].id] = "ok" /\ DestOf(files[k]) = dest}

\* positions a and b hold two records whose pipelines both wrote the same output object
Collide(a, b) ==
    /\ a \in 1..Len(files) /\ b \in 1..Len(files) /\ a < b
    /\ outcome[files[a].id] = "ok" /\ outcome[files[b].id] = "ok"
    /\ DestOf(files[a]) = DestOf(files[b])

\* C28: an object already stored at a record's output path changes nothing in the
\* result of its pipeline: the upload replaces the object; so of two records of one
\* batch with the same output path both succeed where each would succeed alone, both
\* are written as 'converted', both are counted, and the object left at that path is
\* the output of the one processed last.
C28_LastWriterWins ==
    /\ []((pc = "file" /\ store # store0) =>
            \A renderOK, uploadOK \in BOOLEAN :
               process_file(files[idx], store, renderOK, uploadOK).ret
                  = process_file(files[idx], store0, renderOK, uploadOK).ret)
    /\ []((pc = "file" /\ DestOf(files[idx]) \in DOMAIN store
              /\ ObjectName(files[idx].gcs_path) \in DOMAIN store0
              /\ store0[ObjectName(files[idx].gcs_path)].kind = "gzip_html")
             => process_file(files[idx], store, TRUE, TRUE).ret)
    /\ [][(pc = "file" /\ outcome'[files[idx].id] = "ok") =>
             store'[DestOf(files[idx])] =
                [kind |-> "markdown", doc |-> store0[ObjectName(files[idx].gcs_path)].doc]]_vars
    /\ [](Completed =>
            \A a, b \in 1..Len(files) :
               Collide(a, b) =>
                  /\ \A k \in {a, b} :
                        /\ status_arg[files[k].id] = "converted"
                        /\ WriteSucceeded(files[k].id) => ledger[files[k].id].status = "converted"
                  /\ result[1] >= Cardinality({files[a].id, files[b].id})
                  /\ {files[a].id, files[b].id} \subseteq {i \in Eligible : outcome[i] = "ok"}
                  /\ b = Max(StoredAt(DestOf(files[b]))) =>
                        /\ store[DestOf(files[b])].kind = "markdown"
                        /\ store[DestOf(files[b])].doc
                              = store0[ObjectName(files[b].gcs_path)].doc)

\* d/p.html.gz and then d/p.htm.gz in one batch: both converted, both counted, and
\* d/markdown/p.md holds the second page, not the first
C28_Witness ==
    /\ Completed
    /\ Len(files) = 2
    /\ files[1].gcs_path = PathPageHtml /\ files[2].gcs_path = PathPageHtm
    /\ DestOf(files[1]) = DestOf(files[2])
    /\ ledger[files[1].id].status = "converted" /\ ledger[files[2].id].status = "converted"
    /\ result = <<2, 2>>
    /\ store[DestOf(files[2])].doc = "page_htm"
    /\ store0[ObjectName(PathPageHtml)].doc = "page_html"

====
